---- MODULE Spec2Model ----
(***************************************************************************)
(* Model of the record codec of ktool's kmacho/structs.py: the Struct      *)
(* engine (create_with_bytes, create_with_values, the .raw attribute, the  *)
(* pre_init/post_init lifecycle) and BitFieldStruct.                       *)
(*                                                                         *)
(* Python values are modelled as records of one shape, PyInt, PyStr,       *)
(* PyBytes, PyStruct and PyNone; a bytes/bytearray value is a sequence of  *)
(* integers 0..255 and a str is a sequence of code points.  The outcome of *)
(* a call that can raise is a record [ok, v, err].                         *)
(*                                                                         *)
(* TLC's integers are 32 bits wide, so the schemas of the model use the    *)
(* 1 and 2 byte integer tags; the engine treats every width alike.         *)
(***************************************************************************)
EXTENDS Integers, Sequences, FiniteSets, TLC

(***************************************************************************)
(* Type tags, structs.py:15-34.  type_mask is 0xffff0000, which does not   *)
(* fit a TLC integer: `type_mask & value' is computed by TypeOf below.     *)
(***************************************************************************)
size_mask == 65535

type_uint == 0

type_sint == 65536

type_str == 131072

type_bytes == 196608

uint8_t == 1

uint16_t == 2

int8_t == type_sint + 1

int16_t == type_sint + 2

char_t(i) == type_str + i

\* field_type = type_mask & value : the bits above the low 16
TypeOf(value) == (value \div (size_mask + 1)) * (size_mask + 1)

\* size = size_mask & value : the low 16 bits
SizeOf(value) == value % (size_mask + 1)

(***************************************************************************)
(* Python values and call outcomes.                                        *)
(***************************************************************************)
PyInt(n) == [t |-> "int", n |-> n, b |-> <<>>, o |-> <<>>]

PyStr(cps) == [t |-> "str", n |-> 0, b |-> cps, o |-> <<>>]

PyBytes(bs) == [t |-> "bytes", n |-> 0, b |-> bs, o |-> <<>>]

PyStruct(instance) == [t |-> "struct", n |-> 0, b |-> <<>>, o |-> <<instance>>]

PyNone == [t |-> "none", n |-> 0, b |-> <<>>, o |-> <<>>]

Ok(v) == [ok |-> TRUE, v |-> <<v>>, err |-> "none"]

Raise(e) == [ok |-> FALSE, v |-> <<>>, err |-> e]

Val(r) == r.v[1]

(***************************************************************************)
(* Byte sequences.                                                         *)
(***************************************************************************)
Min(a, b) == IF a < b THEN a ELSE b

\* Python's seq[lo:hi] for 0 <= lo <= hi, clamped to the sequence (0-based)
Slice(s, lo, hi) == SubSeq(s, Min(lo, Len(s)) + 1, Min(hi, Len(s)))

Reverse(s) == [i \in 1..Len(s) |-> s[Len(s) + 1 - i]]

RECURSIVE FromLittle(_)
\* the unsigned value of a little-endian byte sequence
FromLittle(data) ==
    IF data = <<>> THEN 0 ELSE data[1] + (256 * FromLittle(Tail(data)))

\* int.from_bytes(data, byte_order)
from_bytes(data, byte_order) ==
    IF byte_order = "little" THEN FromLittle(data) ELSE FromLittle(Reverse(data))

RECURSIVE Digits(_)
\* the base-256 digits of n >= 0, least significant first, no leading zero
Digits(n) == IF n = 0 THEN <<>> ELSE <<n % 256>> \o Digits(n \div 256)

RECURSIVE Zeros(_)
\* n zero bytes
Zeros(n) ==
    IF n = 0 THEN <<>>
    ELSE IF n % 2 = 1 THEN <<0>> \o Zeros(n - 1)
    ELSE LET half == Zeros(n \div 2) IN half \o half

\* int.to_bytes(length, byteorder), signed=False: OverflowError for a negative
\* value and for one that needs more than `length' bytes; otherwise the digits,
\* padded with zero bytes at the most significant end
to_bytes(n, length, byte_order) ==
    IF n < 0 THEN Raise("OverflowError")
    ELSE LET d == Digits(n)
         IN  IF Len(d) > length THEN Raise("OverflowError")
             ELSE IF byte_order = "little" THEN Ok(d \o Zeros(length - Len(d)))
             ELSE Ok(Zeros(length - Len(d)) \o Reverse(d))

RECURSIVE Pow2(_)
Pow2(k) == IF k = 0 THEN 1 ELSE 2 * Pow2(k - 1)

\* a sign test on bit `bits' instead of bit `bits - 1': it never finds the bit set
_uint_to_int_wrongbit(uint, bits) ==
    IF (uint \div Pow2(bits)) % 2 # 0 THEN uint - Pow2(bits) ELSE uint

\* structs.py:41-53; the sign bit test `uint & (1 << (bits - 1))' on uint >= 0
_uint_to_int(uint, bits) ==
    IF (uint \div Pow2(bits - 1)) % 2 # 0 THEN uint - Pow2(bits) ELSE uint

(***************************************************************************)
(* UTF-8, as bytes.decode('utf-8') and str.encode('utf-8') compute it: the *)
(* strict codec, which rejects a stray continuation byte, an overlong      *)
(* form, a surrogate, a truncated sequence and a value above U+10FFFF.     *)
(***************************************************************************)
IsCont(b) == b >= 128 /\ b <= 191

\* the length of the sequence a lead byte opens, 0 for a byte that opens none
SeqLen(b1) ==
    IF b1 < 128 THEN 1
    ELSE IF b1 >= 194 /\ b1 <= 223 THEN 2
    ELSE IF b1 >= 224 /\ b1 <= 239 THEN 3
    ELSE IF b1 >= 240 /\ b1 <= 244 THEN 4
    ELSE 0

\* the range the second byte of a sequence must lie in
SecondOk(b1, b2) ==
    IF b1 = 224 THEN b2 >= 160 /\ b2 <= 191
    ELSE IF b1 = 237 THEN b2 >= 128 /\ b2 <= 159
    ELSE IF b1 = 240 THEN b2 >= 144 /\ b2 <= 191
    ELSE IF b1 = 244 THEN b2 >= 128 /\ b2 <= 143
    ELSE IsCont(b2)

CodePoint(data, n) ==
    IF n = 1 THEN data[1]
    ELSE IF n = 2 THEN (data[1] - 192) * 64 + (data[2] - 128)
    ELSE IF n = 3 THEN (data[1] - 224) * 4096 + (data[2] - 128) * 64 + (data[3] - 128)
    ELSE (data[1] - 240) * 262144 + (data[2] - 128) * 4096
             + (data[3] - 128) * 64 + (data[4] - 128)

RECURSIVE utf8_decode(_)
utf8_decode(data) ==
    IF data = <<>> THEN Ok(<<>>)
    ELSE LET n == SeqLen(data[1])
         IN  IF \/ n = 0
                \/ Len(data) < n
                \/ n >= 2 /\ ~SecondOk(data[1], data[2])
                \/ \E i \in 3..n : ~IsCont(data[i])
             THEN Raise("UnicodeDecodeError")
             ELSE LET rest == utf8_decode(SubSeq(data, n + 1, Len(data)))
                  IN  IF rest.ok THEN Ok(<<CodePoint(data, n)>> \o Val(rest)) ELSE rest

EncodeCodePoint(c) ==
    IF c < 128 THEN <<c>>
    ELSE IF c < 2048 THEN <<192 + (c \div 64), 128 + (c % 64)>>
    ELSE IF c < 65536
    THEN <<224 + (c \div 4096), 128 + ((c \div 64) % 64), 128 + (c % 64)>>
    ELSE <<240 + (c \div 262144), 128 + ((c \div 4096) % 64),
           128 + ((c \div 64) % 64), 128 + (c % 64)>>

RECURSIVE utf8_encode(_)
utf8_encode(text) ==
    IF text = <<>> THEN Ok(<<>>)
    ELSE IF text[1] >= 55296 /\ text[1] <= 57343 THEN Raise("UnicodeEncodeError")
    ELSE LET rest == utf8_encode(Tail(text))
         IN  IF rest.ok THEN Ok(EncodeCodePoint(text[1]) \o Val(rest)) ELSE rest

RECURSIVE StripNul_trailing(_)
\* a strip of the trailing NULs only, as str.rstrip('\x00') does
StripNul_trailing(text) ==
    IF text = <<>> THEN <<>>
    ELSE IF text[Len(text)] = 0 THEN StripNul_trailing(SubSeq(text, 1, Len(text) - 1))
    ELSE text

\* str.replace('\x00', '')
StripNul(text) == SelectSeq(text, LAMBDA c : c # 0)

(***************************************************************************)
(* Schemas: Struct subclasses, declared as the classes of structs.py are   *)
(* (_FIELDNAMES, _SIZES, SIZE; a BitFieldStruct adds _BITFIELDS and        *)
(* _BF_SIZES).  An entry of _SIZES is an integer tag or a Struct subclass. *)
(***************************************************************************)
Tag(n) == [isint |-> TRUE, tag |-> n, cls |-> "none"]

Nested(c) == [isint |-> FALSE, tag |-> 0, cls |-> c]

StructClass(names, sizes, size) ==
    [_FIELDNAMES |-> names, _SIZES |-> sizes, SIZE |-> size,
     bitfield |-> FALSE, _BITFIELDS |-> <<>>, _BF_SIZES |-> <<>>]

BitFieldClass(names, sizes, size, bf_names, bf_sizes) ==
    [_FIELDNAMES |-> names, _SIZES |-> sizes, SIZE |-> size,
     bitfield |-> TRUE, _BITFIELDS |-> bf_names, _BF_SIZES |-> bf_sizes]

ClassNames == {"text_t", "unsigned_t", "signed_t", "blob_t", "child_t",
               "parent_t", "flags_t", "badflags_t"}

\* classes for the decoding of single fields on wider inputs: signed integers of
\* 1 and 2 bytes, a 4-byte text slot and the 16-byte slot of a segment name
DecodeClassNames == {"signed_t", "signed16_t", "text4_t", "segname_t"}

Classes ==
    [c \in ClassNames \cup DecodeClassNames |->
       CASE c = "unsigned_t" ->
              StructClass(<<"a", "b">>, <<Tag(uint8_t), Tag(uint16_t)>>, 3)
         [] c = "signed_t" ->
              StructClass(<<"a">>, <<Tag(int8_t)>>, 1)
         [] c = "signed16_t" ->
              StructClass(<<"a">>, <<Tag(int16_t)>>, 2)
         [] c = "text_t" ->
              StructClass(<<"name">>, <<Tag(char_t(2))>>, 2)
         [] c = "text4_t" ->
              StructClass(<<"name">>, <<Tag(char_t(4))>>, 4)
         [] c = "segname_t" ->
              StructClass(<<"segname">>, <<Tag(char_t(16))>>, 16)
         [] c = "blob_t" ->
              StructClass(<<"uuid">>, <<Tag(type_bytes + 2)>>, 2)
         [] c = "child_t" ->
              StructClass(<<"lo">>, <<Tag(uint16_t)>>, 2)
         [] c = "parent_t" ->
              StructClass(<<"cmd", "sub">>, <<Tag(uint8_t), Nested("child_t")>>, 3)
         [] c = "flags_t" ->
              BitFieldClass(<<"value">>, <<Tag(uint16_t)>>, 2,
                            <<"x", "y", "z">>, <<2, 2, 12>>)
         [] c = "badflags_t" ->
              BitFieldClass(<<"value">>, <<Tag(uint8_t)>>, 1,
                            <<"x", "y", "z">>, <<2, 2, 3>>)]

\* Struct.__init__: a fresh instance; its attributes are not set yet
NewInstance(cls, byte_order) ==
    [cls |-> cls, byte_order |-> byte_order, initialized |-> FALSE, attrs |-> <<>>]

\* an ordinary attribute write (Struct defines no __setattr__)
SetAttr(attrs, name, v) ==
    [k \in (DOMAIN attrs) \cup {name} |-> IF k = name THEN v ELSE attrs[k]]

\* the width create_with_bytes consumes for one field
FieldSize(value) ==
    IF value.isint THEN SizeOf(value.tag) ELSE Classes[value.cls].SIZE

RECURSIVE SumSeq(_)
SumSeq(s) == IF s = <<>> THEN 0 ELSE s[1] + SumSeq(Tail(s))

(***************************************************************************)
(* BitFieldStruct.pre_init, structs.py:277-291.                            *)
(***************************************************************************)
RECURSIVE Ones(_)
\* int('1' * bf_size, 2) for bf_size >= 1
Ones(bf_size) == IF bf_size = 0 THEN 0 ELSE (2 * Ones(bf_size - 1)) + 1

RECURSIVE BitAnd(_, _)
\* a & m for a mask m >= 0
BitAnd(a, m) ==
    IF m = 0 THEN 0 ELSE ((a % 2) * (m % 2)) + (2 * BitAnd(a \div 2, m \div 2))

\* a shift that is left out: every sub-field is cut from the low bits
ShiftRight_none(value, cur) == value

\* value >> cur
ShiftRight(value, cur) == value \div Pow2(cur)

RECURSIVE BitFieldLoop(_, _, _, _, _)
BitFieldLoop(c, attrs, value, i, cur) ==
    IF i > Len(c._BITFIELDS) THEN Ok(attrs)
    ELSE LET bf_size == c._BF_SIZES[i]
         IN  IF bf_size = 0 THEN Raise("ValueError")
             ELSE BitFieldLoop(c,
                      SetAttr(attrs, c._BITFIELDS[i],
                              PyInt(BitAnd(ShiftRight(value, cur), Ones(bf_size)))),
                      value, i + 1, cur + bf_size)

\* pre_init without the assertion of line 279
BitFieldPreInit_unchecked(instance) ==
    LET c == Classes[instance.cls]
        r == BitFieldLoop(c, instance.attrs, instance.attrs["value"].n, 1, 0)
    IN  IF r.ok THEN Ok([instance EXCEPT !.attrs = Val(r)]) ELSE r

BitFieldPreInit(instance) ==
    LET c == Classes[instance.cls]
    IN  IF SumSeq(c._BF_SIZES) # c.SIZE * 8 THEN Raise("AssertionError")
        ELSE IF "value" \notin DOMAIN instance.attrs THEN Raise("AttributeError")
        ELSE IF instance.attrs["value"].t # "int" THEN Raise("TypeError")
        ELSE LET r == BitFieldLoop(c, instance.attrs, instance.attrs["value"].n, 1, 0)
             IN  IF r.ok THEN Ok([instance EXCEPT !.attrs = Val(r)]) ELSE r

\* pre_init: the stub of Struct (236-238), overridden by BitFieldStruct
pre_init(instance) ==
    IF Classes[instance.cls].bitfield THEN BitFieldPreInit(instance) ELSE Ok(instance)

\* post_init: the stub of Struct (240-242); no class overrides it
post_init(instance) == Ok(instance)

(***************************************************************************)
(* Struct.create_with_bytes, structs.py:71-127.                            *)
(***************************************************************************)
RECURSIVE create_with_bytes(_, _, _)
RECURSIVE DecodeField(_, _, _)
RECURSIVE DecodeInstance(_, _, _)

\* line 115: the field's value is the instance the nested call returns; an
\* exception the call raises goes on to the caller
NestedValue(sub) == IF sub.ok THEN Ok(PyStruct(Val(sub))) ELSE sub

\* a decoding that hands the caller's byte_order on to the nested record
DecodeField_inherit(value, data, byte_order) ==
    IF value.isint
    THEN LET field_type == TypeOf(value.tag)
             size == SizeOf(value.tag)
         IN  IF field_type = type_str
             THEN LET text == utf8_decode(data)
                  IN  IF text.ok THEN Ok(PyStr(StripNul(Val(text)))) ELSE text
             ELSE IF field_type = type_bytes THEN Ok(PyBytes(data))
             ELSE IF field_type = type_uint THEN Ok(PyInt(from_bytes(data, byte_order)))
             ELSE IF field_type = type_sint
             THEN Ok(PyInt(_uint_to_int(from_bytes(data, byte_order), size * 8)))
             ELSE Ok(PyNone)
    ELSE NestedValue(create_with_bytes(value.cls, data, byte_order))

\* lines 93-115: the value of one field from its slice
DecodeField(value, data, byte_order) ==
    IF value.isint
    THEN LET field_type == TypeOf(value.tag)
             size == SizeOf(value.tag)
         IN  IF field_type = type_str
             THEN LET text == utf8_decode(data)
                  IN  IF text.ok THEN Ok(PyStr(StripNul(Val(text)))) ELSE text
             ELSE IF field_type = type_bytes THEN Ok(PyBytes(data))
             ELSE IF field_type = type_uint THEN Ok(PyInt(from_bytes(data, byte_order)))
             ELSE IF field_type = type_sint
             THEN Ok(PyInt(_uint_to_int(from_bytes(data, byte_order), size * 8)))
             ELSE Ok(PyNone)
    ELSE NestedValue(create_with_bytes(value.cls, data, "little"))

RECURSIVE DecodeLoop(_, _, _, _, _)
\* lines 88-119: the loop over the fields, from field i on; acc holds the
\* attributes set so far, inst_raw and current_off
DecodeLoop(c, raw, byte_order, i, acc) ==
    IF i > Len(c._FIELDNAMES) THEN Ok(acc)
    ELSE LET value == c._SIZES[i]
             size == FieldSize(value)
             data == Slice(raw, acc.current_off, acc.current_off + size)
             field_value == DecodeField(value, data, byte_order)
         IN  IF ~field_value.ok THEN field_value
             ELSE DecodeLoop(c, raw, byte_order, i + 1,
                    [attrs |-> SetAttr(acc.attrs, c._FIELDNAMES[i], Val(field_value)),
                     inst_raw |-> acc.inst_raw \o data,
                     current_off |-> acc.current_off + size])

\* lines 80 and 121: the instance with the attributes the loop set and the raw
\* it collected; an exception the loop raised goes on to the caller
StoreRaw(cls, byte_order, r) ==
    IF ~r.ok THEN r
    ELSE Ok([NewInstance(cls, byte_order) EXCEPT
               !.attrs = SetAttr(Val(r).attrs, "raw", PyBytes(Val(r).inst_raw))])

\* lines 80-121: construct, cut raw to SIZE, decode every field, store raw
DecodeInstance(cls, raw, byte_order) ==
    LET c == Classes[cls]
    IN  StoreRaw(cls, byte_order,
                 DecodeLoop(c, Slice(raw, 0, c.SIZE), byte_order, 1,
                            [attrs |-> <<>>, inst_raw |-> <<>>, current_off |-> 0]))

\* lines 123-127 and 147-150: pre_init, initialized = True, post_init, return
Materialize(instance) ==
    LET pre == pre_init(instance)
    IN  IF ~pre.ok THEN pre
        ELSE post_init([Val(pre) EXCEPT !.initialized = TRUE])

\* lines 123-127 on the outcome d of lines 80-121
Finish(d) == IF ~d.ok THEN d ELSE Materialize(Val(d))

create_with_bytes(cls, raw, byte_order) == Finish(DecodeInstance(cls, raw, byte_order))

(***************************************************************************)
(* Struct._rebuild_raw, structs.py:244-264, and the read of .raw through   *)
(* __getattribute__, 158-161.                                              *)
(***************************************************************************)
\* lines 253-260: the bytes of one field; size is the whole _field_sizes entry
EncodeField(size, field_dat, byte_order) ==
    IF field_dat.t = "int"
    THEN IF size.isint THEN to_bytes(field_dat.n, size.tag, byte_order)
         ELSE Raise("TypeError")
    ELSE IF field_dat.t = "bytes" THEN Ok(field_dat.b)
    ELSE IF field_dat.t = "str" THEN utf8_encode(field_dat.b)
    ELSE Raise("AssertionError")

RECURSIVE RebuildLoop(_, _, _, _)
RebuildLoop(c, instance, i, raw) ==
    IF i > Len(c._FIELDNAMES) THEN Ok(raw)
    ELSE IF c._FIELDNAMES[i] \notin DOMAIN instance.attrs THEN Raise("AttributeError")
    ELSE LET data == EncodeField(c._SIZES[i], instance.attrs[c._FIELDNAMES[i]],
                                 instance.byte_order)
         IN  IF ~data.ok THEN data
             ELSE RebuildLoop(c, instance, i + 1, raw \o Val(data))

_rebuild_raw(instance) == RebuildLoop(Classes[instance.cls], instance, 1, <<>>)

\* a read of .raw that returns the buffer stored at construction when there is one
GetRaw_stored(instance) ==
    IF "raw" \in DOMAIN instance.attrs
    THEN Ok(instance.attrs["raw"].b)
    ELSE _rebuild_raw(instance)

\* __getattribute__('raw'): always the rebuilt buffer, never the stored one
GetRaw(instance) == _rebuild_raw(instance)

(***************************************************************************)
(* Struct.create_with_values, structs.py:130-150.                          *)
(***************************************************************************)
RECURSIVE AssignLoop(_, _, _, _)
\* lines 143-144: values[i] raises IndexError when the list is too short
AssignLoop(c, values, i, attrs) ==
    IF i > Len(c._FIELDNAMES) THEN Ok(attrs)
    ELSE IF i > Len(values) THEN Raise("IndexError")
    ELSE AssignLoop(c, values, i + 1, SetAttr(attrs, c._FIELDNAMES[i], values[i]))

\* lines 140-146: construct, assign every field, call _rebuild_raw
AssignInstance(cls, values, byte_order) ==
    LET a == AssignLoop(Classes[cls], values, 1, <<>>)
    IN  IF ~a.ok THEN a
        ELSE LET instance == [NewInstance(cls, byte_order) EXCEPT !.attrs = Val(a)]
                 raw == _rebuild_raw(instance)
             IN  IF ~raw.ok THEN raw ELSE Ok(instance)

create_with_values(cls, values, byte_order) ==
    LET a == AssignInstance(cls, values, byte_order)
    IN  IF ~a.ok THEN a ELSE Materialize(Val(a))

(***************************************************************************)
(* The inputs the model draws from.                                        *)
(***************************************************************************)
\* how many bytes beyond SIZE a buffer handed to create_with_bytes may hold
MaxExtra == 1

\* how many field writes follow the construction
MaxWrites == 1

\* NUL, an ASCII byte, a continuation byte / the sign bit, a 2-byte lead byte
ByteVals == {0, 5, 128, 195}

ByteOrders == {"little", "big"}

RECURSIVE SeqsUpTo(_, _)
\* the sequences over S of length at most n
SeqsUpTo(S, n) ==
    IF n = 0 THEN {<<>>}
    ELSE LET shorter == SeqsUpTo(S, n - 1)
         IN  shorter \cup {Append(q, x) : q \in {r \in shorter : Len(r) = n - 1}, x \in S}

Buffers(cls) == SeqsUpTo(ByteVals, Classes[cls].SIZE + MaxExtra)

\* values a caller may give a field: in range, at the edge, out of range, and
\* of another type
FieldVals(value) ==
    IF ~value.isint
    THEN {PyStruct(Val(create_with_bytes(value.cls, <<5, 128>>, "little"))), PyInt(0)}
    ELSE LET field_type == TypeOf(value.tag)
             size == SizeOf(value.tag)
         IN  IF field_type = type_uint
             THEN {PyInt(-1), PyInt(0), PyInt(Pow2(8 * size) - 1), PyInt(Pow2(8 * size))}
             ELSE IF field_type = type_sint
             THEN {PyInt(-Pow2(8 * size - 1) - 1), PyInt(-Pow2(8 * size - 1)), PyInt(-1),
                   PyInt(0), PyInt(Pow2(8 * size - 1) - 1), PyInt(Pow2(8 * size - 1))}
             ELSE IF field_type = type_str
             THEN {PyStr(<<>>), PyStr(<<65>>), PyStr(<<65, 0>>), PyStr(<<65, 66>>),
                   PyStr(<<192>>), PyStr(<<65, 66, 67>>), PyInt(0)}
             ELSE {PyBytes(<<>>), PyBytes(<<65>>), PyBytes(<<0, 65>>),
                   PyBytes(<<65, 128, 195>>), PyStr(<<65, 66>>)}

RECURSIVE ValueLists(_, _)
\* the value lists for the first n fields of class c
ValueLists(c, n) ==
    IF n = 0 THEN {<<>>}
    ELSE {Append(q, x) : q \in ValueLists(c, n - 1), x \in FieldVals(c._SIZES[n])}

\* the lists handed to create_with_values: one value per field, or one short
Values(cls) ==
    LET c == Classes[cls]
    IN  ValueLists(c, Len(c._FIELDNAMES)) \cup ValueLists(c, Len(c._FIELDNAMES) - 1)

(***************************************************************************)
(* The state: one caller constructing one record and then using it.        *)
(***************************************************************************)
VARIABLES
    pc,          \* where the caller is: idle, inside a constructor, returned, failed
    via,         \* the constructor called: "bytes", "values" or "none"
    inst,        \* the instance under construction, then the instance returned
    arg_raw,     \* the buffer handed to create_with_bytes
    arg_values,  \* the value list handed to create_with_values
    error,       \* the exception the constructor raised, "none" if none
    hooks,       \* the hooks run so far, each with the value of initialized it saw
    last_raw,    \* the outcome of the caller's latest read of .raw
    fresh,       \* a read of .raw happened and no field was written since
    writes       \* the field writes done

vars == <<pc, via, inst, arg_raw, arg_values, error, hooks, last_raw, fresh, writes>>

NoInstance == NewInstance("none", "little")

Init ==
    /\ pc = "idle"
    /\ via = "none"
    /\ inst = NoInstance
    /\ arg_raw = <<>>
    /\ arg_values = <<>>
    /\ error = "none"
    /\ hooks = <<>>
    /\ last_raw = Raise("unread")
    /\ fresh = FALSE
    /\ writes = 0

\* a call of create_with_bytes, up to line 121
CallCreateWithBytes ==
    /\ pc = "idle"
    /\ \E cls \in ClassNames, byte_order \in ByteOrders :
          \E raw \in Buffers(cls) :
             LET d == DecodeInstance(cls, raw, byte_order)
             IN  /\ arg_raw' = raw
                 /\ IF d.ok
                    THEN inst' = Val(d) /\ pc' = "pre_init" /\ error' = error
                    ELSE /\ inst' = NewInstance(cls, byte_order)
                         /\ pc' = "failed"
                         /\ error' = d.err
    /\ via' = "bytes"
    /\ UNCHANGED <<arg_values, hooks, last_raw, fresh, writes>>

\* a call of create_with_values, up to line 146
CallCreateWithValues ==
    /\ pc = "idle"
    /\ \E cls \in ClassNames, byte_order \in ByteOrders :
          \E values \in Values(cls) :
             LET a == AssignInstance(cls, values, byte_order)
             IN  /\ arg_values' = values
                 /\ IF a.ok
                    THEN inst' = Val(a) /\ pc' = "pre_init" /\ error' = error
                    ELSE /\ inst' = NewInstance(cls, byte_order)
                         /\ pc' = "failed"
                         /\ error' = a.err
    /\ via' = "values"
    /\ UNCHANGED <<arg_raw, hooks, last_raw, fresh, writes>>

\* pre_init called after initialized was set, lines 123 and 124 exchanged
PreInit_marked ==
    /\ pc = "pre_init"
    /\ hooks' = Append(hooks, [hook |-> "pre_init", initialized |-> TRUE])
    /\ LET r == pre_init([inst EXCEPT !.initialized = TRUE])
       IN  IF r.ok
           THEN inst' = Val(r) /\ pc' = "mark" /\ error' = error
           ELSE inst' = inst /\ pc' = "failed" /\ error' = r.err
    /\ UNCHANGED <<via, arg_raw, arg_values, last_raw, fresh, writes>>

\* lines 123 and 147: instance.pre_init()
PreInit ==
    /\ pc = "pre_init"
    /\ hooks' = Append(hooks, [hook |-> "pre_init", initialized |-> inst.initialized])
    /\ LET r == pre_init(inst)
       IN  IF r.ok
           THEN inst' = Val(r) /\ pc' = "mark" /\ error' = error
           ELSE inst' = inst /\ pc' = "failed" /\ error' = r.err
    /\ UNCHANGED <<via, arg_raw, arg_values, last_raw, fresh, writes>>

\* lines 124 and 148: instance.initialized = True
MarkInitialized ==
    /\ pc = "mark"
    /\ inst' = [inst EXCEPT !.initialized = TRUE]
    /\ pc' = "post_init"
    /\ UNCHANGED <<via, arg_raw, arg_values, error, hooks, last_raw, fresh, writes>>

\* lines 125 and 149: instance.post_init()
PostInit ==
    /\ pc = "post_init"
    /\ hooks' = Append(hooks, [hook |-> "post_init", initialized |-> inst.initialized])
    /\ LET r == post_init(inst)
       IN  IF r.ok
           THEN inst' = Val(r) /\ pc' = "return" /\ error' = error
           ELSE inst' = inst /\ pc' = "failed" /\ error' = r.err
    /\ UNCHANGED <<via, arg_raw, arg_values, last_raw, fresh, writes>>

\* lines 127 and 150: return instance
Return ==
    /\ pc = "return"
    /\ pc' = "returned"
    /\ UNCHANGED <<via, inst, arg_raw, arg_values, error, hooks, last_raw, fresh, writes>>

\* the caller assigns a field of the returned instance
WriteField ==
    /\ pc = "returned"
    /\ writes < MaxWrites
    /\ \E i \in 1..Len(Classes[inst.cls]._FIELDNAMES) :
          \E v \in FieldVals(Classes[inst.cls]._SIZES[i]) :
             inst' = [inst EXCEPT !.attrs = SetAttr(@, Classes[inst.cls]._FIELDNAMES[i], v)]
    /\ writes' = writes + 1
    /\ fresh' = FALSE
    /\ UNCHANGED <<pc, via, arg_raw, arg_values, error, hooks, last_raw>>

\* the caller reads instance.raw
ReadRaw ==
    /\ pc = "returned"
    /\ last_raw' = GetRaw(inst)
    /\ fresh' = TRUE
    /\ UNCHANGED <<pc, via, inst, arg_raw, arg_values, error, hooks, writes>>

Next ==
    \/ CallCreateWithBytes
    \/ CallCreateWithValues
    \/ PreInit
    \/ MarkInitialized
    \/ PostInit
    \/ Return
    \/ WriteField
    \/ ReadRaw

Spec == Init /\ [][Next]_vars

(***************************************************************************)
(* The decoding of one field on wider inputs: create_with_bytes, up to     *)
(* line 121, on a class of one signed or one text field and a buffer of    *)
(* exactly SIZE bytes.                                                     *)
(***************************************************************************)
AllBytes == 0..255

\* NUL, 'T', a continuation byte, the lead byte of a 2-byte form
TextBytes == {0, 84, 128, 195}

RECURSIVE SeqsOfLen(_, _)
\* the sequences over S of length n
SeqsOfLen(S, n) ==
    IF n = 0 THEN {<<>>}
    ELSE {Append(q, x) : q \in SeqsOfLen(S, n - 1), x \in S}

\* b"__TEXT" followed by ten NUL bytes, and the same name with NULs inside it
SegmentNames ==
    {<<95, 95, 84, 69, 88, 84>> \o Zeros(10),
     <<0, 95, 95, 0, 84, 69, 0, 0, 88, 84>> \o Zeros(6),
     <<95, 95, 84, 69, 88, 84, 195, 128>> \o Zeros(8)}

DecodeBuffers(cls) ==
    IF cls = "segname_t" THEN SegmentNames
    ELSE IF cls = "text4_t" THEN SeqsOfLen(TextBytes, Classes[cls].SIZE)
    ELSE SeqsOfLen(AllBytes, Classes[cls].SIZE)

\* a call of create_with_bytes, up to line 121, on a full-width buffer
CallDecode ==
    /\ pc = "idle"
    /\ \E cls \in DecodeClassNames, byte_order \in ByteOrders :
          \E raw \in DecodeBuffers(cls) :
             LET d == DecodeInstance(cls, raw, byte_order)
             IN  /\ arg_raw' = raw
                 /\ IF d.ok
                    THEN inst' = Val(d) /\ pc' = "pre_init" /\ error' = error
                    ELSE /\ inst' = NewInstance(cls, byte_order)
                         /\ pc' = "failed"
                         /\ error' = d.err
    /\ via' = "bytes"
    /\ UNCHANGED <<arg_values, hooks, last_raw, fresh, writes>>

DecodeNext == CallDecode

DecodeSpec == Init /\ [][DecodeNext]_vars

(***************************************************************************)
(* Properties.                                                             *)
(***************************************************************************)
Schema == Classes[inst.cls]

\* the class is a plain Struct, or a BitFieldStruct whose bit widths add up
WellFormed(c) == c.bitfield => SumSeq(c._BF_SIZES) = c.SIZE * 8

\* the buffer the caller read from a freshly constructed, unwritten instance
ReadAfterConstruction == pc = "returned" /\ writes = 0 /\ fresh

\* C1: round trip decode then encode.  For every class, byte order and
\* buffer B of exactly SIZE bytes, the read of .raw of the instance that
\* create_with_bytes returned succeeds and gives B.
C1_DecodeEncodeRoundTrip ==
    (via = "bytes" /\ ReadAfterConstruction /\ Len(arg_raw) = Schema.SIZE)
        => (last_raw.ok /\ Val(last_raw) = arg_raw)

\* a value conforms to a field: an unsigned or signed integer in the range of
\* the width, a text or a byte string whose encoded length is the width
Conforms(value, v) ==
    /\ value.isint
    /\ LET field_type == TypeOf(value.tag)
           size == SizeOf(value.tag)
       IN  \/ field_type = type_uint /\ v.t = "int"
                /\ v.n >= 0 /\ v.n <= Pow2(8 * size) - 1
           \/ field_type = type_sint /\ v.t = "int"
                /\ v.n >= -Pow2(8 * size - 1) /\ v.n <= Pow2(8 * size - 1) - 1
           \/ field_type = type_str /\ v.t = "str"
                /\ utf8_encode(v.b).ok /\ Len(Val(utf8_encode(v.b))) = size
           \/ field_type = type_bytes /\ v.t = "bytes" /\ Len(v.b) = size

ConformingValues(c, values) ==
    /\ Len(values) = Len(c._FIELDNAMES)
    /\ \A i \in 1..Len(values) : Conforms(c._SIZES[i], values[i])

\* field-wise equality, text compared after removing NUL characters
SameValue(v, w) ==
    /\ v.t = w.t
    /\ IF v.t = "str" THEN StripNul(v.b) = StripNul(w.b) ELSE v = w

\* C2: round trip encode then decode.  For every class and byte order and
\* every conforming value list V, create_with_values(V) returns an instance,
\* reading its .raw succeeds, and create_with_bytes of that buffer under the
\* same byte order gives back V field by field.
C2_EncodeDecodeRoundTrip ==
    (via = "values" /\ WellFormed(Schema) /\ ConformingValues(Schema, arg_values))
        => /\ pc # "failed"
           /\ ReadAfterConstruction =>
                /\ last_raw.ok
                /\ LET again == create_with_bytes(inst.cls, Val(last_raw), inst.byte_order)
                   IN  /\ again.ok
                       /\ \A i \in 1..Len(arg_values) :
                             SameValue(Val(again).attrs[Schema._FIELDNAMES[i]],
                                       arg_values[i])

\* an instance that carries nothing but the class, the byte order and the
\* current values of the schema's fields
FieldsOnly(instance) ==
    [NewInstance(instance.cls, instance.byte_order) EXCEPT
       !.attrs = [k \in {Classes[instance.cls]._FIELDNAMES[i] :
                           i \in 1..Len(Classes[instance.cls]._FIELDNAMES)}
                  |-> instance.attrs[k]]]

\* C3: no stale raw form.  What a read of .raw returned, as long as no field
\* was written since, is the encoding of the current field values under the
\* instance's byte order and of nothing else (not the buffer stored at decode
\* time); a read changes no attribute of the instance, and a second read with
\* no write in between returns the same outcome.
C3_NoStaleRaw ==
    /\ [](fresh => last_raw = _rebuild_raw(FieldsOnly(inst)))
    /\ [][(fresh' /\ writes' = writes)
             => (inst' = inst /\ (fresh => last_raw' = last_raw))]_vars

\* C3 witness: an instance decoded from three zero bytes had its first field
\* written, and the read that followed returned the new value's encoding, not
\* the bytes stored at decode time
C3_Witness ==
    /\ via = "bytes" /\ pc = "returned" /\ writes > 0 /\ fresh
    /\ inst.cls = "unsigned_t"
    /\ inst.attrs["raw"].b = <<0, 0, 0>>
    /\ last_raw = Ok(<<255, 0, 0>>)

\* C4: fixed raw length.  Every successful read of .raw of a returned
\* instance gives exactly SIZE bytes.
C4_RawLengthIsSize ==
    (pc = "returned" /\ fresh /\ last_raw.ok) => Len(Val(last_raw)) = Schema.SIZE

\* C5: truncated input is rejected.  create_with_bytes with a buffer shorter
\* than SIZE returns no instance.
C5_TruncatedRejected ==
    (via = "bytes" /\ Len(arg_raw) < Schema.SIZE) => pc # "returned"

\* an unsigned or signed integer field
IntField(value) ==
    value.isint /\ TypeOf(value.tag) \in {type_uint, type_sint}

\* an integer value that the width of its integer field cannot represent
OutOfRange(value, v) ==
    /\ IntField(value)
    /\ v.t = "int"
    /\ ~Conforms(value, v)

\* C6: width overflow rejection.  While an integer field holds a value its
\* width cannot represent, every read of .raw fails and create_with_values
\* fails; while every field is an integer field holding a value in range, the
\* read succeeds.
C6_WidthOverflowRejected ==
    /\ (/\ pc = "returned" /\ fresh
        /\ \E i \in 1..Len(Schema._FIELDNAMES) :
              OutOfRange(Schema._SIZES[i], inst.attrs[Schema._FIELDNAMES[i]]))
          => ~last_raw.ok
    /\ (/\ via = "values"
        /\ Len(arg_values) = Len(Schema._FIELDNAMES)
        /\ \E i \in 1..Len(arg_values) : OutOfRange(Schema._SIZES[i], arg_values[i]))
          => pc = "failed"
    /\ (/\ pc = "returned" /\ fresh
        /\ \A i \in 1..Len(Schema._FIELDNAMES) :
              /\ IntField(Schema._SIZES[i])
              /\ Conforms(Schema._SIZES[i], inst.attrs[Schema._FIELDNAMES[i]]))
          => last_raw.ok

PreSeen == [hook |-> "pre_init", initialized |-> FALSE]

PostSeen == [hook |-> "post_init", initialized |-> TRUE]

\* C7: lifecycle order.  In both constructors pre_init runs once and sees
\* initialized False, then initialized is set, then post_init runs once and
\* sees initialized True, then the instance is returned; field writes and
\* reads of .raw run no hook and leave initialized True.  A nested instance
\* is initialized by the time it becomes a field value.
C7_LifecycleOrder ==
    /\ pc \in {"idle", "pre_init"} => (hooks = <<>> /\ ~inst.initialized)
    /\ pc = "mark" => (hooks = <<PreSeen>> /\ ~inst.initialized)
    /\ pc = "post_init" => (hooks = <<PreSeen>> /\ inst.initialized)
    /\ pc \in {"return", "returned"} => (hooks = <<PreSeen, PostSeen>> /\ inst.initialized)
    /\ pc = "failed" => hooks \in {<<>>, <<PreSeen>>}
    /\ \A k \in DOMAIN inst.attrs :
          inst.attrs[k].t = "struct" => inst.attrs[k].o[1].initialized

\* C7 witness: a returned instance was written and read, successfully, and
\* both hooks ran once
C7_Witness ==
    /\ pc = "returned" /\ writes > 0 /\ fresh
    /\ last_raw.ok /\ Len(Val(last_raw)) = Schema.SIZE
    /\ hooks = <<PreSeen, PostSeen>>
    /\ inst.initialized

\* the offset of field i: the widths of the fields before it
FieldOffset(c, i) == SumSeq([j \in 1..(i - 1) |-> FieldSize(c._SIZES[j])])

\* C8: nested record.  A nested field of class C at offset off is decoded from
\* bytes [off, off + C.SIZE) of the buffer, the child's .raw is that slice,
\* and the parent's .raw holds the child's encoding at the same offset.
C8_NestedRecord ==
    (via = "bytes" /\ pc = "returned" /\ writes = 0 /\ Len(arg_raw) >= Schema.SIZE)
        => \A i \in 1..Len(Schema._FIELDNAMES) :
              ~Schema._SIZES[i].isint =>
                 LET C == Classes[Schema._SIZES[i].cls]
                     off == FieldOffset(Schema, i)
                     slice == Slice(arg_raw, off, off + C.SIZE)
                     sub == inst.attrs[Schema._FIELDNAMES[i]]
                 IN  /\ sub.t = "struct"
                     /\ sub.o[1].cls = Schema._SIZES[i].cls
                     /\ sub.o[1].attrs["raw"].b = slice
                     /\ GetRaw(sub.o[1]) = Ok(slice)
                     /\ fresh =>
                          /\ last_raw.ok
                          /\ Slice(Val(last_raw), off, off + C.SIZE) = slice

\* C9: bitfield split.  For a BitFieldStruct whose bit widths add up to
\* 8 x SIZE, once pre_init has run sub-field i holds
\* (value >> (b_1 + ... + b_(i-1))) & (2^(b_i) - 1), least significant first.
C9_BitfieldSplit ==
    (/\ pc \in {"mark", "post_init", "return", "returned"}
     /\ Schema.bitfield /\ WellFormed(Schema)
     /\ writes = 0)
        => \A i \in 1..Len(Schema._BITFIELDS) :
              /\ Schema._BITFIELDS[i] \in DOMAIN inst.attrs
              /\ inst.attrs[Schema._BITFIELDS[i]] =
                    PyInt((inst.attrs["value"].n
                             \div Pow2(SumSeq(SubSeq(Schema._BF_SIZES, 1, i - 1))))
                          % Pow2(Schema._BF_SIZES[i]))

\* C9 witness: the backing value 5 with widths 2, 2, 12 gives 1, 1, 0
C9_Witness ==
    /\ pc = "returned"
    /\ inst.cls = "flags_t"
    /\ inst.attrs["value"] = PyInt(5)
    /\ inst.attrs["x"] = PyInt(1)
    /\ inst.attrs["y"] = PyInt(1)
    /\ inst.attrs["z"] = PyInt(0)

\* C10: bitfield width mismatch is fatal.  For a BitFieldStruct whose bit
\* widths do not add up to 8 x SIZE no constructor gets past pre_init: the
\* instance is never marked initialized, no sub-field is ever assigned, no
\* instance is returned, and when pre_init is reached it raises.
C10_BitfieldMismatchFatal ==
    (pc # "idle" /\ Schema.bitfield /\ ~WellFormed(Schema))
        => /\ pc \in {"pre_init", "failed"}
           /\ ~inst.initialized
           /\ \A i \in 1..Len(Schema._BITFIELDS) :
                 Schema._BITFIELDS[i] \notin DOMAIN inst.attrs
           /\ hooks # <<>> =>
                 (pc = "failed" /\ error = "AssertionError" /\ hooks = <<PreSeen>>)

\* C10 witness: pre_init of the mismatched class was reached and raised
C10_Witness ==
    /\ pc = "failed"
    /\ Schema.bitfield /\ ~WellFormed(Schema)
    /\ hooks = <<PreSeen>>
    /\ error = "AssertionError"

\* a class of one signed integer field
SignedClass(c) ==
    /\ Len(c._SIZES) = 1
    /\ c._SIZES[1].isint
    /\ TypeOf(c._SIZES[1].tag) = type_sint

\* the unsigned value of a pattern of one or two bytes in a byte order
UnsignedValue(raw, byte_order) ==
    IF Len(raw) = 1 THEN raw[1]
    ELSE IF byte_order = "little" THEN raw[1] + (256 * raw[2])
    ELSE (256 * raw[1]) + raw[2]

\* C11: two's-complement decode.  A pattern of w bytes (w = 1, 2) decoded as a
\* signed field gives u when u < 2^(8w-1) and u - 2^(8w) otherwise, u being
\* the pattern's unsigned value in the byte order; the result lies in
\* -2^(8w-1) .. 2^(8w-1) - 1, and the decoding raises nothing.
C11_TwosComplementDecode ==
    (pc # "idle" /\ SignedClass(Schema) /\ Len(arg_raw) = Schema.SIZE)
        => LET w == Schema.SIZE
               u == UnsignedValue(arg_raw, inst.byte_order)
           IN  /\ pc # "failed"
               /\ inst.attrs[Schema._FIELDNAMES[1]] =
                     PyInt(IF u < Pow2((8 * w) - 1) THEN u ELSE u - Pow2(8 * w))
               /\ inst.attrs[Schema._FIELDNAMES[1]].n >= -Pow2((8 * w) - 1)
               /\ inst.attrs[Schema._FIELDNAMES[1]].n <= Pow2((8 * w) - 1) - 1

\* C11 witness: 0xFF decodes to -1
C11_Witness ==
    /\ pc = "pre_init"
    /\ inst.cls = "signed_t"
    /\ arg_raw = <<255>>
    /\ inst.attrs["a"] = PyInt(-1)


\* a class of one fixed-width text field
TextClass(c) ==
    /\ Len(c._SIZES) = 1
    /\ c._SIZES[1].isint
    /\ TypeOf(c._SIZES[1].tag) = type_str

\* the positions of text that hold a character other than NUL
NonNul(text) == {i \in 1..Len(text) : text[i] # 0}

\* value is text with its NULs taken out: the k-th character of text that is
\* not NUL is the k-th character of value, and value has no other character
WithoutNul(value, text) ==
    /\ Len(value) = Cardinality(NonNul(text))
    /\ \A i \in NonNul(text) :
          value[Cardinality({j \in NonNul(text) : j <= i})] = text[i]

\* C12: fixed-width text decode.  A slice of w bytes that is valid UTF-8,
\* decoded as a text field of width w, gives the slice's text with every NUL
\* removed wherever it stands: the value is a str, holds no NUL, and keeps the
\* other characters in their order; the decoding raises nothing.
C12_TextDecodeStripsNul ==
    (/\ pc # "idle"
     /\ TextClass(Schema)
     /\ Len(arg_raw) = Schema.SIZE
     /\ utf8_decode(arg_raw).ok)
        => /\ pc # "failed"
           /\ inst.attrs[Schema._FIELDNAMES[1]].t = "str"
           /\ \A i \in 1..Len(inst.attrs[Schema._FIELDNAMES[1]].b) :
                 inst.attrs[Schema._FIELDNAMES[1]].b[i] # 0
           /\ WithoutNul(inst.attrs[Schema._FIELDNAMES[1]].b, Val(utf8_decode(arg_raw)))

\* C12 witness: the 16-byte slot b"__TEXT" + ten NULs decodes to "__TEXT"
C12_Witness ==
    /\ pc = "pre_init"
    /\ inst.cls = "segname_t"
    /\ arg_raw = <<95, 95, 84, 69, 88, 84>> \o Zeros(10)
    /\ inst.attrs["segname"] = PyStr(<<95, 95, 84, 69, 88, 84>>)

\* the unsigned value of at most two bytes read least significant byte first
LittleEndianValue(data) ==
    IF Len(data) = 0 THEN 0
    ELSE IF Len(data) = 1 THEN data[1]
    ELSE data[1] + (256 * data[2])

\* a record of class parent_t just decoded from arg_raw and not written since
ParentDecoded ==
    /\ via = "bytes"
    /\ pc \notin {"idle", "failed"}
    /\ inst.cls = "parent_t"
    /\ writes = 0

\* C13: nested records ignore the parent's byte order.  Whatever byte_order
\* create_with_bytes was called with, the instance it builds for a nested field
\* has byte_order "little", and its integer field is the little-endian value of
\* the field's slice.
C13_NestedIgnoresByteOrder ==
    ParentDecoded
        => /\ inst.attrs["sub"].t = "struct"
           /\ inst.attrs["sub"].o[1].cls = "child_t"
           /\ inst.attrs["sub"].o[1].byte_order = "little"
           /\ inst.attrs["sub"].o[1].attrs["lo"] =
                 PyInt(LittleEndianValue(Slice(arg_raw, 1, Schema.SIZE)))

\* C13 witness: a big-endian parent whose nested bytes 05 00 are read as 5
C13_Witness ==
    /\ ParentDecoded
    /\ inst.byte_order = "big"
    /\ arg_raw = <<5, 5, 0>>
    /\ inst.attrs["sub"].o[1].byte_order = "little"
    /\ inst.attrs["sub"].o[1].attrs["lo"] = PyInt(5)
====
